---- MODULE Spec2Model ----
(***************************************************************************)
(* rugu: a wgpu/winit renderer.  The model covers the start-up negotiation *)
(* (State::new in src/lib.rs, init in src/bin/game-of-life.rs), the event  *)
(* loop closure of run, handle_keyboard_input, and the two State::draw     *)
(* methods (the library's and the binary's), which differ in their         *)
(* handling of a lost or outdated surface and in the draw ranges.          *)
(*                                                                         *)
(* The event loop is single threaded: the closure runs to completion for   *)
(* one event before the next is delivered.  draw is modelled in steps      *)
(* (acquire, record, submit, present); while pc is one of these steps no   *)
(* event is delivered.                                                     *)
(***************************************************************************)
EXTENDS Integers, Sequences, FiniteSets, TLC

VARIABLES
    variant,           \* which State::draw is linked: "lib" or "bin"
    pc,                \* position of the process
    caps,              \* surface_caps, the local of State::new / init
    config,            \* the SurfaceConfiguration last given to surface.configure
    configure_calls,   \* number of surface.configure calls made so far
    control_flow,      \* *control_flow of the event loop
    exit_signals,      \* number of executions of *control_flow = ControlFlow::Exit
    redraw_requested,  \* window.request_redraw() pending
    now,               \* the monotonic clock read by Instant::now()
    counter,           \* State.counter
    event,             \* the event most recently handed to the closure
    surface_texture,   \* the local surface_texture of draw
    command_encoder,   \* the local command_encoder of draw
    call,              \* what the current / most recent draw call has done
    diagnostic,        \* the panic message, if the process panicked
    exit_status        \* the process exit status, once it has ended

vars == <<variant, pc, caps, config, configure_calls, control_flow, exit_signals,
          redraw_requested, now, counter, event, surface_texture, command_encoder,
          call, diagnostic, exit_status>>

---------------------------------------------------------------------------
(* Bounds of the model *)

MaxTime == 2
MaxExitSignals == 2

---------------------------------------------------------------------------
(* Program constants and the values the environment supplies *)

WindowWidth == 800
WindowHeight == 600
SQUARE_VERTICES_LEN == 4
INSTANCE_DATA_LEN == 1

\* LogicalSize is scaled by the monitor's scale factor to give inner_size().
ScaleFactors == {1, 2}

Variants == {"lib", "bin"}

OwnWindow == "own"
ForeignWindow == "foreign"
WindowIds == {OwnWindow, ForeignWindow}

TextureFormats == {"Bgra8UnormSrgb", "Rgba8UnormSrgb"}
PresentModes == {"Fifo", "Mailbox"}
AlphaModes == {"Auto", "Opaque"}
FifoPresentMode == "Fifo"
DefaultAlphaMode == "Auto"

\* A capability list: every duplicate-free sequence over the given set.
CapabilityLists(S) ==
    UNION { { f \in [1..k -> S] : \A i, j \in 1..k : f[i] = f[j] => i = j }
            : k \in 0..Cardinality(S) }

SurfaceCapabilities ==
    [ formats : CapabilityLists(TextureFormats),
      present_modes : CapabilityLists(PresentModes),
      alpha_modes : CapabilityLists(AlphaModes) ]

NoCaps == [formats |-> <<>>, present_modes |-> <<>>, alpha_modes |-> <<>>, queried |-> FALSE]
NoConfig == [format |-> "none", width |-> 0, height |-> 0,
             present_mode |-> "none", alpha_mode |-> "none", configured |-> FALSE]

\* What surface.get_current_texture() can return.
SurfaceResults == {"Ok", "Timeout", "Outdated", "Lost", "OutOfMemory"}

VirtualKeyCodes == {"None", "Escape", "Space"}
ElementStates == {"Pressed", "Released"}
ResizeSizes == {<<0, 600>>, <<1024, 0>>, <<1024, 768>>}

Ev(kind, id, vk, st, w, h) ==
    [kind |-> kind, window_id |-> id, virtual_keycode |-> vk, state |-> st,
     width |-> w, height |-> h]
NoEvent == Ev("none", "none", "none", "none", 0, 0)

NoCall == [acquired |-> "none", dt |-> 0, entered |-> 0, passes |-> 0, draw_calls |-> 0,
           vertices |-> 0, instances |-> 0, submits |-> 0, presents |-> 0]

StartupFailures == {"Failed to create window", "Failed to create surface",
                    "Failed to request adapter", "Failed to request device"}

---------------------------------------------------------------------------
(* Ending the process *)

\* panic!/expect/unwrap/todo!: the process ends with a message and status 101.
Panic(msg) ==
    /\ pc' = "panicked"
    /\ diagnostic' = msg
    /\ exit_status' = 101

---------------------------------------------------------------------------
(* Start-up: State::new / init *)

Init ==
    /\ variant \in Variants
    /\ pc = "negotiate"
    /\ caps = NoCaps
    /\ config = NoConfig
    /\ configure_calls = 0
    /\ control_flow = "Poll"
    /\ exit_signals = 0
    /\ redraw_requested = FALSE
    /\ now = 0
    /\ counter = 0
    /\ event = NoEvent
    /\ surface_texture = "none"
    /\ command_encoder = "none"
    /\ call = NoCall
    /\ diagnostic = "none"
    /\ exit_status = -1

\* Window, surface, adapter and device; each .expect() may fail.  On success
\* surface.get_capabilities(&adapter) is read.
Negotiate ==
    /\ pc = "negotiate"
    /\ \/ /\ \E c \in SurfaceCapabilities :
                caps' = [formats |-> c.formats, present_modes |-> c.present_modes,
                         alpha_modes |-> c.alpha_modes, queried |-> TRUE]
          /\ pc' = "configure"
          /\ UNCHANGED <<diagnostic, exit_status>>
       \/ /\ \E msg \in StartupFailures : Panic(msg)
          /\ UNCHANGED caps
    /\ UNCHANGED <<variant, config, configure_calls, control_flow, exit_signals,
                   redraw_requested, now, counter, event, surface_texture,
                   command_encoder, call>>

\* Variant of FirstOr that takes the last supported entry instead of the first.
FirstOr_TakesLast(list, fallback) == IF Len(list) > 0 THEN list[Len(list)] ELSE fallback

\* list.get(0).unwrap_or(&fallback)
FirstOr(list, fallback) == IF Len(list) > 0 THEN list[1] ELSE fallback

\* surface.configure(&device, &SurfaceConfiguration { .. })
Configure ==
    /\ pc = "configure"
    /\ IF Len(caps.formats) = 0
          THEN /\ Panic("Surface had no supported texture formats")
               /\ UNCHANGED <<config, configure_calls>>
          ELSE /\ \E s \in ScaleFactors :
                    config' = [format |-> caps.formats[1],
                               width |-> WindowWidth * s,
                               height |-> WindowHeight * s,
                               present_mode |-> FirstOr(caps.present_modes, FifoPresentMode),
                               alpha_mode |-> FirstOr(caps.alpha_modes, DefaultAlphaMode),
                               configured |-> TRUE]
               /\ configure_calls' = configure_calls + 1
               /\ pc' = "build_pipeline"
               /\ UNCHANGED <<diagnostic, exit_status>>
    /\ UNCHANGED <<variant, caps, control_flow, exit_signals, redraw_requested, now,
                   counter, event, surface_texture, command_encoder, call>>

\* Shader, buffers and pipeline; surface.get_current_texture().unwrap() gives the
\* target format.  State { counter: Instant::now(), .. } is returned and the
\* locals of the function go out of scope.
BuildPipeline ==
    /\ pc = "build_pipeline"
    /\ \/ /\ pc' = "idle"
          /\ counter' = now
          /\ caps' = NoCaps
          /\ UNCHANGED <<diagnostic, exit_status>>
       \/ /\ Panic("called Result::unwrap() on an Err value")
          /\ UNCHANGED <<counter, caps>>
    /\ UNCHANGED <<variant, config, configure_calls, control_flow, exit_signals,
                   redraw_requested, now, event, surface_texture, command_encoder, call>>

---------------------------------------------------------------------------
(* State::draw *)

\* Variant of DrawBegin that leaves self.counter as it was.
DrawBegin_StaleCounter ==
    /\ call' = [NoCall EXCEPT !.acquired = "pending", !.dt = now - counter, !.entered = now]
    /\ counter' = counter
    /\ pc' = "acquire"

\* let dt = self.counter.elapsed(); self.counter = Instant::now();
DrawBegin ==
    /\ call' = [NoCall EXCEPT !.acquired = "pending", !.dt = now - counter, !.entered = now]
    /\ counter' = now
    /\ pc' = "acquire"

\* Variant of LibAcquire without the OutOfMemory arm: the error is logged by the
\* catch-all arm and draw returns.
LibAcquire_OutOfMemoryReturns ==
    /\ pc = "acquire"
    /\ variant = "lib"
    /\ \E r \in SurfaceResults :
          /\ call' = [call EXCEPT !.acquired = r]
          /\ CASE r = "Ok" ->
                    /\ surface_texture' = "acquired"
                    /\ pc' = "record"
               [] OTHER ->
                    /\ pc' = "idle"
                    /\ UNCHANGED surface_texture
    /\ UNCHANGED <<variant, caps, config, configure_calls, control_flow, exit_signals,
                   redraw_requested, now, counter, event, command_encoder,
                   diagnostic, exit_status>>

\* src/lib.rs: match self.surface.get_current_texture()
LibAcquire ==
    /\ pc = "acquire"
    /\ variant = "lib"
    /\ \E r \in SurfaceResults :
          /\ call' = [call EXCEPT !.acquired = r]
          /\ CASE r = "Ok" ->
                    /\ surface_texture' = "acquired"
                    /\ pc' = "record"
                    /\ UNCHANGED <<diagnostic, exit_status>>
               [] r = "Timeout" ->
                    /\ pc' = "idle"
                    /\ UNCHANGED <<surface_texture, diagnostic, exit_status>>
               [] r = "OutOfMemory" ->
                    /\ Panic("Out of memory!")
                    /\ UNCHANGED surface_texture
               [] OTHER ->
                    \* warn!("Error: {:?}", err); return;
                    /\ pc' = "idle"
                    /\ UNCHANGED <<surface_texture, diagnostic, exit_status>>
    /\ UNCHANGED <<variant, caps, config, configure_calls, control_flow, exit_signals,
                   redraw_requested, now, counter, event, command_encoder>>

\* src/bin/game-of-life.rs: match self.surface.get_current_texture()
BinAcquire ==
    /\ pc = "acquire"
    /\ variant = "bin"
    /\ \E r \in SurfaceResults :
          /\ call' = [call EXCEPT !.acquired = r]
          /\ CASE r = "Ok" ->
                    /\ surface_texture' = "acquired"
                    /\ pc' = "record"
                    /\ UNCHANGED <<diagnostic, exit_status>>
               [] r = "Timeout" ->
                    /\ pc' = "idle"
                    /\ UNCHANGED <<surface_texture, diagnostic, exit_status>>
               [] r = "OutOfMemory" ->
                    /\ Panic("Out of memory!")
                    /\ UNCHANGED surface_texture
               [] OTHER ->
                    /\ Panic("not yet implemented: Need to handle lost and outdated surface errors; recreate surface")
                    /\ UNCHANGED surface_texture
    /\ UNCHANGED <<variant, caps, config, configure_calls, control_flow, exit_signals,
                   redraw_requested, now, counter, event, command_encoder>>

\* create_view, create_command_encoder, one render pass, one draw call.
\* vertices and instances are the lengths of the ranges given to render_pass.draw.
RecordPass(vertices, instances) ==
    /\ pc = "record"
    /\ command_encoder' = "recorded"
    /\ call' = [call EXCEPT !.passes = @ + 1, !.draw_calls = @ + 1,
                            !.vertices = vertices, !.instances = instances]
    /\ pc' = "submit"
    /\ UNCHANGED <<variant, caps, config, configure_calls, control_flow, exit_signals,
                   redraw_requested, now, counter, event, surface_texture,
                   diagnostic, exit_status>>

\* src/lib.rs: render_pass.draw(0..SQUARE_VERTICES.len(), 0..INSTANCE_DATA.len())
LibRecord == variant = "lib" /\ RecordPass(SQUARE_VERTICES_LEN, INSTANCE_DATA_LEN)

\* src/bin/game-of-life.rs: render_pass.draw(0..1, 0..1)
BinRecord == variant = "bin" /\ RecordPass(1, 1)

\* Variant of Submit that hands the command buffer to the queue twice.
Submit_Twice ==
    /\ pc = "submit"
    /\ command_encoder' = "none"
    /\ call' = [call EXCEPT !.submits = @ + 2]
    /\ pc' = "present"
    /\ UNCHANGED <<variant, caps, config, configure_calls, control_flow, exit_signals,
                   redraw_requested, now, counter, event, surface_texture,
                   diagnostic, exit_status>>

\* self.queue.submit(std::iter::once(command_encoder.finish()));
Submit ==
    /\ pc = "submit"
    /\ command_encoder' = "none"
    /\ call' = [call EXCEPT !.submits = @ + 1]
    /\ pc' = "present"
    /\ UNCHANGED <<variant, caps, config, configure_calls, control_flow, exit_signals,
                   redraw_requested, now, counter, event, surface_texture,
                   diagnostic, exit_status>>

\* Variant of Present that presents the image as soon as the pass is recorded
\* and returns, without the submit.
Present_BeforeSubmit ==
    /\ pc = "submit"
    /\ surface_texture' = "none"
    /\ call' = [call EXCEPT !.presents = @ + 1]
    /\ pc' = "idle"
    /\ UNCHANGED <<variant, caps, config, configure_calls, control_flow, exit_signals,
                   redraw_requested, now, counter, event, command_encoder,
                   diagnostic, exit_status>>

\* surface_texture.present(); draw returns.
Present ==
    /\ pc = "present"
    /\ surface_texture' = "none"
    /\ call' = [call EXCEPT !.presents = @ + 1]
    /\ pc' = "idle"
    /\ UNCHANGED <<variant, caps, config, configure_calls, control_flow, exit_signals,
                   redraw_requested, now, counter, event, command_encoder,
                   diagnostic, exit_status>>

---------------------------------------------------------------------------
(* The event loop closure of run, and handle_keyboard_input *)

\* Variant of handle_keyboard_input without the ElementState::Pressed guard.
HandleKeyboardInput_AnyState(input) ==
    IF input.virtual_keycode = "None"
       THEN UNCHANGED <<control_flow, exit_signals>>
       ELSE IF input.virtual_keycode = "Escape"
               THEN /\ control_flow' = "Exit"
                    /\ exit_signals' = exit_signals + 1
               ELSE UNCHANGED <<control_flow, exit_signals>>

\* Variant of handle_keyboard_input that exits on any pressed key.
HandleKeyboardInput_AnyKey(input) ==
    IF input.virtual_keycode = "None"
       THEN UNCHANGED <<control_flow, exit_signals>>
       ELSE IF input.state = "Pressed"
               THEN /\ control_flow' = "Exit"
                    /\ exit_signals' = exit_signals + 1
               ELSE UNCHANGED <<control_flow, exit_signals>>

\* pub fn handle_keyboard_input(input: KeyboardInput, control_flow: &mut ControlFlow)
HandleKeyboardInput(input) ==
    IF input.virtual_keycode = "None"
       THEN UNCHANGED <<control_flow, exit_signals>>
       ELSE IF input.virtual_keycode = "Escape" /\ input.state = "Pressed"
               THEN /\ control_flow' = "Exit"
                    /\ exit_signals' = exit_signals + 1
               ELSE UNCHANGED <<control_flow, exit_signals>>

\* Variant of the WindowEvent arm that applies every Resized size to the surface.
WindowEventArm_AppliesResize(e) ==
    IF e.kind = "KeyboardInput"
       THEN /\ HandleKeyboardInput(e)
            /\ UNCHANGED <<config, configure_calls>>
       ELSE IF e.kind = "Resized"
               THEN /\ config' = [config EXCEPT !.width = e.width, !.height = e.height]
                    /\ configure_calls' = configure_calls + 1
                    /\ UNCHANGED <<control_flow, exit_signals>>
               ELSE UNCHANGED <<control_flow, exit_signals, config, configure_calls>>

\* The inner match of the WindowEvent arm, taken for the owned window only.
WindowEventArm(e) ==
    IF e.kind = "KeyboardInput"
       THEN /\ HandleKeyboardInput(e)
            /\ UNCHANGED <<config, configure_calls>>
       ELSE UNCHANGED <<control_flow, exit_signals, config, configure_calls>>

\* The window events the windowing system can deliver.
WindowEvents ==
    { Ev("KeyboardInput", id, vk, st, 0, 0) :
          id \in WindowIds, vk \in VirtualKeyCodes, st \in ElementStates }
    \cup { Ev("Resized", id, "none", "none", sz[1], sz[2]) :
          id \in WindowIds, sz \in ResizeSizes }
    \cup { Ev(k, id, "none", "none", 0, 0) :
          k \in {"CloseRequested", "Focused"}, id \in WindowIds }

IsEscapePress(e) ==
    /\ e.kind = "KeyboardInput"
    /\ e.window_id = OwnWindow
    /\ e.virtual_keycode = "Escape"
    /\ e.state = "Pressed"

\* Event::MainEventsCleared => state.window.request_redraw()
MainEventsCleared ==
    /\ pc = "idle"
    /\ event' = Ev("MainEventsCleared", "none", "none", "none", 0, 0)
    /\ redraw_requested' = TRUE
    /\ UNCHANGED <<variant, pc, caps, config, configure_calls, control_flow, exit_signals,
                   now, counter, surface_texture, command_encoder, call,
                   diagnostic, exit_status>>

\* Event::RedrawRequested(id) if id == state.window.id() => state.draw()
RedrawRequested ==
    /\ pc = "idle"
    /\ \E id \in WindowIds :
          /\ event' = Ev("RedrawRequested", id, "none", "none", 0, 0)
          /\ IF id = OwnWindow
                THEN /\ DrawBegin
                     /\ redraw_requested' = FALSE
                ELSE UNCHANGED <<call, counter, pc, redraw_requested>>
    /\ UNCHANGED <<variant, caps, config, configure_calls, control_flow, exit_signals,
                   now, surface_texture, command_encoder, diagnostic, exit_status>>

\* WindowEvent { window_id, event } if window_id == state.window.id() => match event
WindowEvent ==
    /\ pc = "idle"
    /\ \E e \in WindowEvents :
          /\ IsEscapePress(e) => exit_signals < MaxExitSignals
          /\ event' = e
          /\ IF e.window_id = OwnWindow
                THEN WindowEventArm(e)
                ELSE UNCHANGED <<control_flow, exit_signals, config, configure_calls>>
    /\ UNCHANGED <<variant, pc, caps, redraw_requested, now, counter, surface_texture,
                   command_encoder, call, diagnostic, exit_status>>

\* Every other event (NewEvents, RedrawEventsCleared, DeviceEvent, ..): _ => {}
OtherEvent ==
    /\ pc = "idle"
    /\ event' = Ev("NewEvents", "none", "none", "none", 0, 0)
    /\ UNCHANGED <<variant, pc, caps, config, configure_calls, control_flow, exit_signals,
                   redraw_requested, now, counter, surface_texture, command_encoder,
                   call, diagnostic, exit_status>>

\* With *control_flow == Exit the loop hands LoopDestroyed to the closure (_ => {})
\* and event_loop.run ends the process with status 0.
LoopDestroyed ==
    /\ pc = "idle"
    /\ control_flow = "Exit"
    /\ event' = Ev("LoopDestroyed", "none", "none", "none", 0, 0)
    /\ pc' = "exited"
    /\ exit_status' = 0
    /\ UNCHANGED <<variant, caps, config, configure_calls, control_flow, exit_signals,
                   redraw_requested, now, counter, surface_texture, command_encoder,
                   call, diagnostic>>

\* Time passes between events.
Tick ==
    /\ pc = "idle"
    /\ now < MaxTime
    /\ now' = now + 1
    /\ UNCHANGED <<variant, pc, caps, config, configure_calls, control_flow, exit_signals,
                   redraw_requested, counter, event, surface_texture, command_encoder,
                   call, diagnostic, exit_status>>

Next ==
    \/ Negotiate
    \/ Configure
    \/ BuildPipeline
    \/ MainEventsCleared
    \/ RedrawRequested
    \/ WindowEvent
    \/ OtherEvent
    \/ LoopDestroyed
    \/ LibAcquire
    \/ BinAcquire
    \/ LibRecord
    \/ BinRecord
    \/ Submit
    \/ Present
    \/ Tick

Spec == Init /\ [][Next]_vars

---------------------------------------------------------------------------
(* Properties *)

\* draw has returned to the event loop (or the loop has since ended normally).
Returned == pc \in {"idle", "exited"}

\* The step hands an event to the closure while the loop is waiting.
Dispatch == pc = "idle" /\ now' = now /\ event' \in WindowEvents \cup
                { Ev("RedrawRequested", id, "none", "none", 0, 0) : id \in WindowIds }

RedrawOwn == Ev("RedrawRequested", OwnWindow, "none", "none", 0, 0)

\* C1: when acquisition in draw fails with Outdated or Lost, the driver
\* reconfigures the surface (a further surface.configure call), submits and
\* presents nothing, and the process keeps running.
C1_ReconfigureOnOutdatedOrLost ==
    call.acquired \in {"Outdated", "Lost"} =>
        /\ pc # "panicked"
        /\ configure_calls > 1
        /\ call.submits = 0
        /\ call.presents = 0

\* C2: when acquisition in draw returns Timeout, draw returns with no render
\* pass recorded, nothing submitted, nothing presented and no error raised,
\* and State.counter holds the time at which that call was entered.
C2_TimeoutSkipsFrame ==
    call.acquired = "Timeout" =>
        /\ Returned
        /\ call.passes = 0
        /\ call.draw_calls = 0
        /\ call.submits = 0
        /\ call.presents = 0
        /\ command_encoder = "none"
        /\ surface_texture = "none"
        /\ diagnostic = "none"
        /\ exit_status \in {-1, 0}
        /\ counter = call.entered

C2_Witness ==
    /\ call.acquired = "Timeout"
    /\ pc = "idle"
    /\ call.dt > 0
    /\ counter = now

\* C3: when acquisition in draw returns OutOfMemory the process panics with a
\* diagnostic and a non-zero status, nothing is submitted or presented for the
\* frame, and no step of the program follows (the redraw request is the last
\* event handled).
C3_OutOfMemoryIsFatal ==
    call.acquired = "OutOfMemory" =>
        /\ pc = "panicked"
        /\ diagnostic = "Out of memory!"
        /\ exit_status > 0
        /\ call.passes = 0
        /\ call.submits = 0
        /\ call.presents = 0
        /\ event = RedrawOwn
        /\ ~ ENABLED Next

C3_Witness ==
    /\ call.acquired = "OutOfMemory"
    /\ pc = "panicked"
    /\ diagnostic = "Out of memory!"

\* C4: every draw call submits at most one command buffer: exactly one once
\* acquisition has succeeded and the call has passed its submit, none when
\* acquisition did not succeed; no recorded command buffer is kept after a call.
C4_AtMostOneSubmitPerCall ==
    /\ call.submits <= 1
    /\ (call.acquired = "Ok" /\ pc \in {"present", "idle", "exited"}) => call.submits = 1
    /\ call.acquired # "Ok" => call.submits = 0
    /\ pc \in {"idle", "exited", "panicked"} => command_encoder = "none"

C4_Witness ==
    /\ pc = "idle"
    /\ call.acquired = "Ok"
    /\ call.submits = 1
    /\ call.dt > 0

\* C5: an Escape key event for the owned window with state Pressed sets the
\* control flow to Exit, as one exit signal; the Released event sets nothing.
C5_EscapeOneSignalPerPress ==
    [][ (Dispatch /\ event'.kind = "KeyboardInput" /\ event'.window_id = OwnWindow
                  /\ event'.virtual_keycode = "Escape") =>
            IF event'.state = "Pressed"
               THEN control_flow' = "Exit" /\ exit_signals' = exit_signals + 1
               ELSE control_flow' = control_flow /\ exit_signals' = exit_signals ]_vars

C5_Witness ==
    /\ event = Ev("KeyboardInput", OwnWindow, "Escape", "Released", 0, 0)
    /\ exit_signals = 1
    /\ control_flow = "Exit"

\* C6: once a CloseRequested event for the owned window has been handled the
\* control flow is Exit.
C6_CloseRequestedExits ==
    (event.kind = "CloseRequested" /\ event.window_id = OwnWindow) =>
        control_flow = "Exit"

\* C7: a Resized event with a zero width or height leaves the stored surface
\* configuration as it was (no surface.configure call), and whenever the surface
\* is configured its width and height are both positive.
C7_ZeroResizeIsNoOp ==
    /\ [](config.configured => config.width > 0 /\ config.height > 0)
    /\ [][ (Dispatch /\ event'.kind = "Resized"
                     /\ (event'.width = 0 \/ event'.height = 0)) =>
               (config' = config /\ configure_calls' = configure_calls) ]_vars

C7_Witness ==
    /\ event.kind = "Resized"
    /\ event.window_id = OwnWindow
    /\ event.width = 0
    /\ config.configured
    /\ config.width > 0
    /\ pc = "idle"

\* C8: once a Resized event for the owned window with a positive width and
\* height has been handled, the stored surface configuration has that size.
C8_ResizeIsForwarded ==
    (event.kind = "Resized" /\ event.window_id = OwnWindow
        /\ event.width > 0 /\ event.height > 0) =>
        (config.width = event.width /\ config.height = event.height)

\* C9: the configuration chosen at start-up takes the first supported format,
\* the first supported present mode or Fifo when none is listed, and the first
\* supported alpha mode or the default when none is listed; with no supported
\* format start-up panics and the surface is never configured.
C9_FirstSupportedWins ==
    /\ (caps.queried /\ pc # "configure" /\ caps.formats # <<>>) =>
            /\ config.configured
            /\ config.format = Head(caps.formats)
            /\ config.present_mode =
                   (IF caps.present_modes = <<>> THEN "Fifo" ELSE Head(caps.present_modes))
            /\ config.alpha_mode =
                   (IF caps.alpha_modes = <<>> THEN "Auto" ELSE Head(caps.alpha_modes))
    /\ (caps.queried /\ pc # "configure" /\ caps.formats = <<>>) =>
            /\ pc = "panicked"
            /\ diagnostic = "Surface had no supported texture formats"
            /\ exit_status > 0
            /\ ~ config.configured
    /\ (/\ caps.queried /\ pc # "configure"
        /\ caps.formats = <<"Bgra8UnormSrgb", "Rgba8UnormSrgb">>
        /\ caps.present_modes = <<>>
        /\ caps.alpha_modes = <<"Opaque">>) =>
            /\ config.format = "Bgra8UnormSrgb"
            /\ config.present_mode = "Fifo"
            /\ config.alpha_mode = "Opaque"

C9_Witness ==
    /\ pc = "build_pipeline"
    /\ caps.formats = <<"Bgra8UnormSrgb", "Rgba8UnormSrgb">>
    /\ caps.present_modes = <<>>
    /\ caps.alpha_modes = <<"Opaque">>
    /\ config.present_mode = "Fifo"

\* An event the closure has no use for.
Ignored(e) ==
    \/ e.window_id = ForeignWindow
    \/ e.kind = "KeyboardInput" /\ e.virtual_keycode = "None"
    \/ e.kind = "KeyboardInput" /\ e.virtual_keycode \notin {"None", "Escape"}

\* C10: a redraw request or window event for a window other than the owned one,
\* a key event without a virtual key code, and a key event for a key other than
\* Escape leave the control flow as it was and do not invoke draw.
C10_OtherEventsAreNoOps ==
    [][ (Dispatch /\ Ignored(event')) =>
            /\ control_flow' = control_flow
            /\ exit_signals' = exit_signals
            /\ pc' = "idle"
            /\ call' = call
            /\ counter' = counter
            /\ UNCHANGED <<surface_texture, command_encoder, config, configure_calls>> ]_vars

C10_Witness ==
    /\ event = Ev("KeyboardInput", OwnWindow, "Space", "Pressed", 0, 0)
    /\ control_flow = "Poll"
    /\ exit_signals = 0
    /\ pc = "idle"
    /\ call.acquired = "Ok"

\* The positions inside draw: the frame driver is Rendering; at "idle" it is Idle.
Rendering == {"acquire", "record", "submit", "present"}

\* C11: the driver is Rendering only while the redraw request for the owned
\* window is being handled, and every draw call that was entered returns to
\* Idle: after its present, and after an early return on Timeout, Outdated or
\* Lost.
C11_RenderingReturnsToIdle ==
    /\ pc \in Rendering => event = RedrawOwn
    /\ call.acquired \in {"Timeout", "Outdated", "Lost"} => Returned
    /\ (call.acquired = "Ok" /\ call.presents = 1) => Returned

\* C12: in a draw call whose acquisition succeeds the steps come in the order
\* acquire, record (one render pass, one draw call), submit, present; an image
\* is presented only by the call that acquired it, after that call's submit,
\* and no acquired image is held outside a draw call.
C12_StepOrder ==
    /\ [](/\ pc = "record" =>
                /\ call.acquired = "Ok" /\ surface_texture = "acquired"
                /\ call.passes = 0 /\ call.submits = 0 /\ call.presents = 0
          /\ pc = "submit" =>
                /\ call.acquired = "Ok" /\ surface_texture = "acquired"
                /\ call.passes = 1 /\ call.draw_calls = 1
                /\ command_encoder = "recorded"
                /\ call.submits = 0 /\ call.presents = 0
          /\ pc = "present" =>
                /\ call.acquired = "Ok" /\ surface_texture = "acquired"
                /\ call.passes = 1 /\ call.draw_calls = 1
                /\ call.submits = 1 /\ call.presents = 0
          /\ call.presents <= call.submits
          /\ call.submits <= call.passes
          /\ call.passes = call.draw_calls
          /\ call.passes > 0 => call.acquired = "Ok"
          /\ pc \notin Rendering => surface_texture = "none")
    /\ [][ /\ call'.passes > call.passes => (surface_texture = "acquired" /\ pc = "record")
           /\ call'.submits > call.submits => (call.passes = 1 /\ call.presents = 0)
           /\ call'.presents > call.presents =>
                 /\ call.acquired = "Ok"
                 /\ call.submits = 1
                 /\ surface_texture = "acquired"
                 /\ surface_texture' = "none"
                 /\ pc' = "idle" ]_vars

C12_Witness ==
    /\ pc = "idle"
    /\ call.acquired = "Ok"
    /\ call.passes = 1
    /\ call.draw_calls = 1
    /\ call.submits = 1
    /\ call.presents = 1
    /\ surface_texture = "none"

====
